---- MODULE Spec2Model ----
(***************************************************************************)
(* Model of the morse translation library (src/lib.rs, module morse) and   *)
(* of the command line program around it (src/main.rs).                    *)
(*                                                                         *)
(* A Rust String is a sequence of one-character strings.  The glyph of     *)
(* Morse::Dit, U+00B7, is written "." and the glyph of Morse::Dah, U+2015, *)
(* is written "-"; every other character stands for itself.  A call's      *)
(* outcome is a record: kind "ok" with the returned value, or kind "panic" *)
(* with the reason; the library's functions return String or char, so      *)
(* there is no error value a call could return.                            *)
(***************************************************************************)
EXTENDS Integers, Sequences, FiniteSets, TLC

VARIABLES pc, msg, enc, dec, ch, seq, back,
          cpc, mode, raw, output, translated, stdout, stderr, file,
          exit_code, calls

libvars == <<pc, msg, enc, dec, ch, seq, back>>
clivars == <<cpc, mode, raw, output, translated, stdout, stderr, file,
             exit_code, calls>>
vars == <<pc, msg, enc, dec, ch, seq, back,
          cpc, mode, raw, output, translated, stdout, stderr, file,
          exit_code, calls>>

----------------------------------------------------------------------------
(* Outcomes of a call.                                                     *)

Nil == [kind |-> "none", val |-> <<>>, why |-> "none"]
Ok(v) == [kind |-> "ok", val |-> v, why |-> "none"]
Panic(w) == [kind |-> "panic", val |-> <<>>, why |-> w]

NilC == [kind |-> "none", val |-> "", why |-> "none"]
OkC(c) == [kind |-> "ok", val |-> c, why |-> "none"]
PanicC(w) == [kind |-> "panic", val |-> "", why |-> w]

(* The two panics of the library: Option::unwrap on None, and the          *)
(* unreachable! arm of Morse::from_str.                                    *)
UnwrapNone == "called Option::unwrap() on a None value"
Unreachable == "Morse should not contain other str sequences"

----------------------------------------------------------------------------
(* enum Morse and its impl.                                                *)

Morse == {"Dit", "Dah", "BaseSpace", "LetterSpace", "WordSpace"}

to_str(m) ==
    CASE m = "Dit" -> <<".">>
      [] m = "Dah" -> <<"-">>
      [] m = "LetterSpace" -> <<" ", " ", " ">>
      [] m = "WordSpace" -> <<" ", " ", " ", " ", " ", " ", " ">>
      [] m = "BaseSpace" -> <<" ">>

(* The value is a member of Morse, or Unreachable when the last arm is     *)
(* taken and the call panics.                                              *)
from_str(symbol) ==
    CASE symbol = <<".">> -> "Dit"
      [] symbol = <<"-">> -> "Dah"
      [] symbol = <<" ">> -> "BaseSpace"
      [] symbol = <<" ", " ", " ">> -> "LetterSpace"
      [] symbol = <<" ", " ", " ", " ", " ", " ", " ">> -> "WordSpace"
      [] OTHER -> Unreachable

CHAR_MORSE_MAP == <<
    <<" ", <<"WordSpace">> >>,
    <<"a", <<"Dit", "Dah">> >>,
    <<"b", <<"Dah", "Dit", "Dit", "Dit">> >>,
    <<"c", <<"Dah", "Dit", "Dah", "Dit">> >>,
    <<"d", <<"Dah", "Dit", "Dit">> >>,
    <<"e", <<"Dit">> >>,
    <<"f", <<"Dit", "Dit", "Dah", "Dit">> >>,
    <<"g", <<"Dah", "Dah", "Dit">> >>,
    <<"h", <<"Dit", "Dit", "Dit", "Dit">> >>,
    <<"i", <<"Dit", "Dit">> >>,
    <<"j", <<"Dit", "Dah", "Dah", "Dah">> >>,
    <<"k", <<"Dah", "Dit", "Dah">> >>,
    <<"l", <<"Dit", "Dah", "Dit", "Dit">> >>,
    <<"m", <<"Dah", "Dah">> >>,
    <<"n", <<"Dah", "Dit">> >>,
    <<"o", <<"Dah", "Dah", "Dah">> >>,
    <<"p", <<"Dit", "Dah", "Dah", "Dit">> >>,
    <<"q", <<"Dah", "Dah", "Dit", "Dah">> >>,
    <<"r", <<"Dit", "Dah", "Dit">> >>,
    <<"s", <<"Dit", "Dit", "Dit">> >>,
    <<"t", <<"Dah">> >>,
    <<"u", <<"Dit", "Dit", "Dah">> >>,
    <<"v", <<"Dit", "Dit", "Dit", "Dah">> >>,
    <<"w", <<"Dit", "Dah", "Dah">> >>,
    <<"x", <<"Dah", "Dit", "Dit", "Dah">> >>,
    <<"y", <<"Dah", "Dit", "Dah", "Dah">> >>,
    <<"z", <<"Dah", "Dah", "Dit", "Dit">> >>,
    <<"1", <<"Dit", "Dah", "Dah", "Dah", "Dah">> >>,
    <<"2", <<"Dit", "Dit", "Dah", "Dah", "Dah">> >>,
    <<"3", <<"Dit", "Dit", "Dit", "Dah", "Dah">> >>,
    <<"4", <<"Dit", "Dit", "Dit", "Dit", "Dah">> >>,
    <<"5", <<"Dit", "Dit", "Dit", "Dit", "Dit">> >>,
    <<"6", <<"Dah", "Dit", "Dit", "Dit", "Dit">> >>,
    <<"7", <<"Dah", "Dah", "Dit", "Dit", "Dit">> >>,
    <<"8", <<"Dah", "Dah", "Dah", "Dit", "Dit">> >>,
    <<"9", <<"Dah", "Dah", "Dah", "Dah", "Dit">> >>,
    <<"0", <<"Dah", "Dah", "Dah", "Dah", "Dah">> >>
>>

----------------------------------------------------------------------------
(* str::split with a string pattern, and [String]::join.                   *)

MatchAt(s, i, pat) ==
    /\ i + Len(pat) - 1 <= Len(s)
    /\ SubSeq(s, i, i + Len(pat) - 1) = pat

FirstMatch(s, pat) ==
    IF \E i \in 1..Len(s) : MatchAt(s, i, pat)
    THEN CHOOSE i \in 1..Len(s) :
            /\ MatchAt(s, i, pat)
            /\ \A j \in 1..(i - 1) : ~MatchAt(s, j, pat)
    ELSE 0

RECURSIVE Split(_, _)
Split(s, pat) ==
    LET i == FirstMatch(s, pat)
    IN  IF i = 0
        THEN <<s>>
        ELSE <<SubSeq(s, 1, i - 1)>> \o Split(SubSeq(s, i + Len(pat), Len(s)), pat)

RECURSIVE Join(_, _)
Join(parts, sep) ==
    IF Len(parts) = 0 THEN <<>>
    ELSE IF Len(parts) = 1 THEN parts[1]
    ELSE parts[1] \o sep \o Join(Tail(parts), sep)

(* The first panic an iterator chain meets, in iteration order.            *)
FirstPanic(rs) ==
    LET bad == {i \in 1..Len(rs) : rs[i].kind = "panic"}
        i0 == CHOOSE i \in bad : \A j \in bad : i <= j
    IN  rs[i0].why

AnyPanic(rs) == \E i \in 1..Len(rs) : rs[i].kind = "panic"

----------------------------------------------------------------------------
(* The private functions of the module.                                    *)

morse_char_to_str(c) ==
    Join([i \in 1..Len(c) |-> to_str(c[i])], to_str("BaseSpace"))

from_morse_str_to_morse_array(m) ==
    LET toks == Split(m, to_str("BaseSpace"))
        morse == [i \in 1..Len(toks) |-> from_str(toks[i])]
    IN  IF \E i \in 1..Len(morse) : morse[i] = Unreachable
        THEN Panic(Unreachable)
        ELSE Ok(morse)

(* from_morse_array_to_char comparing the lengths of the sequences only.   *)
from_morse_array_to_char_by_len(morse) ==
    LET Hit(m) == Len(m[2]) = Len(morse)
        hits == SelectSeq(CHAR_MORSE_MAP, Hit)
        c == [i \in 1..Len(hits) |-> hits[i][1]]
    IN  IF Len(c) = 0 THEN PanicC(UnwrapNone) ELSE OkC(c[1])

from_morse_array_to_char(morse) ==
    LET Hit(m) == m[2] = morse
        hits == SelectSeq(CHAR_MORSE_MAP, Hit)
        c == [i \in 1..Len(hits) |-> hits[i][1]]
    IN  IF Len(c) = 0 THEN PanicC(UnwrapNone) ELSE OkC(c[1])

(* char_morse with the filter left out: every entry's sequence.            *)
char_morse_unfiltered(c) ==
    [i \in 1..Len(CHAR_MORSE_MAP) |-> CHAR_MORSE_MAP[i][2]]

(* The filter of word_to_morse: the sequences of the entries for c.        *)
char_morse(c) ==
    LET Hit(k) == k[1] = c
        hits == SelectSeq(CHAR_MORSE_MAP, Hit)
    IN  [i \in 1..Len(hits) |-> hits[i][2]]

(* char_morse.first().unwrap() of word_to_morse.                           *)
lookup_by_char(c) ==
    IF Len(char_morse(c)) = 0
    THEN Panic(UnwrapNone)
    ELSE Ok(char_morse(c)[1])

(* word_to_morse joining the letters with the unit gap.                    *)
word_to_morse_unit_gap(word) ==
    LET one(c) == IF lookup_by_char(c).kind = "panic"
                  THEN lookup_by_char(c)
                  ELSE Ok(morse_char_to_str(lookup_by_char(c).val))
        rs == [i \in 1..Len(word) |-> one(word[i])]
        morse_word == [i \in 1..Len(word) |-> rs[i].val]
    IN  IF AnyPanic(rs) THEN Panic(FirstPanic(rs))
        ELSE Ok(Join(morse_word, to_str("BaseSpace")))

word_to_morse(word) ==
    LET one(c) == IF lookup_by_char(c).kind = "panic"
                  THEN lookup_by_char(c)
                  ELSE Ok(morse_char_to_str(lookup_by_char(c).val))
        rs == [i \in 1..Len(word) |-> one(word[i])]
        morse_word == [i \in 1..Len(word) |-> rs[i].val]
    IN  IF AnyPanic(rs) THEN Panic(FirstPanic(rs))
        ELSE Ok(Join(morse_word, to_str("LetterSpace")))

morseword_to_alphabet(morseword) ==
    LET letters == Split(morseword, to_str("LetterSpace"))
        one(l) == LET a == from_morse_str_to_morse_array(l)
                  IN  IF a.kind = "panic" THEN PanicC(a.why)
                      ELSE from_morse_array_to_char(a.val)
        rs == [i \in 1..Len(letters) |-> one(letters[i])]
        word == [i \in 1..Len(letters) |-> <<rs[i].val>>]
    IN  IF AnyPanic(rs) THEN Panic(FirstPanic(rs))
        ELSE Ok(Join(word, <<>>))

----------------------------------------------------------------------------
(* The public functions.                                                   *)

translate_to_morse(m) ==
    LET words == Split(m, <<" ">>)
        rs == [i \in 1..Len(words) |-> word_to_morse(words[i])]
        out == [i \in 1..Len(words) |-> rs[i].val]
    IN  IF AnyPanic(rs) THEN Panic(FirstPanic(rs))
        ELSE Ok(Join(out, to_str("WordSpace")))

translate_from_morse(m) ==
    LET words == Split(m, to_str("WordSpace"))
        rs == [i \in 1..Len(words) |-> morseword_to_alphabet(words[i])]
        out == [i \in 1..Len(words) |-> rs[i].val]
    IN  IF AnyPanic(rs) THEN Panic(FirstPanic(rs))
        ELSE Ok(Join(out, <<" ">>))

----------------------------------------------------------------------------
(* The characters of the model.                                            *)

LowerCase == <<"a", "b", "c", "d", "e", "f", "g", "h", "i", "j", "k", "l", "m",
               "n", "o", "p", "q", "r", "s", "t", "u", "v", "w", "x", "y", "z">>
UpperCase == <<"A", "B", "C", "D", "E", "F", "G", "H", "I", "J", "K", "L", "M",
               "N", "O", "P", "Q", "R", "S", "T", "U", "V", "W", "X", "Y", "Z">>
Range(f) == {f[i] : i \in DOMAIN f}
Letters == Range(LowerCase)
Capitals == Range(UpperCase)
Digits == {"0", "1", "2", "3", "4", "5", "6", "7", "8", "9"}
Supported == Letters \cup Digits \cup {" "}
(* The characters of the class \s that the model draws from.               *)
WhiteSpace == {" ", "\t", "\n"}

Str(S, n) == UNION {[1..k -> S] : k \in 0..n}

(* Bounds of the inputs.                                                   *)
WideLen == 2
MaxLen == 4
MaxMorseLen == 7
MaxPulses == 5
MaxCliLen == 3

OtherChars == {"!", "A", "\t"}
TextChars == {" ", "s", "o", "5"}
MorseChars == {".", "-", " "}
CliChars == {"a", "A", "5", " ", "\t", "!", ".", "-"}

TextInputs ==
    Str(Supported \cup OtherChars, WideLen) \cup Str(TextChars \cup {"!"}, MaxLen)
MorseInputs ==
    Str(MorseChars, MaxMorseLen) \cup Str(MorseChars \cup {"x"}, MaxLen)
SeqInputs ==
    Str({"Dit", "Dah"}, MaxPulses) \cup {<<m>> : m \in Morse}
CliInputs == Str(CliChars, MaxCliLen)

----------------------------------------------------------------------------
(* The library under direct calls, as its test module calls it.            *)

LibIdle ==
    /\ pc = "idle"
    /\ msg = <<>>
    /\ enc = Nil
    /\ dec = Nil
    /\ ch = ""
    /\ seq = Nil
    /\ back = NilC

CliIdle ==
    /\ cpc = "start"
    /\ mode = "Encode"
    /\ raw = <<>>
    /\ output = "none"
    /\ translated = Nil
    /\ stdout = <<>>
    /\ stderr = <<>>
    /\ file = [written |-> FALSE, content |-> <<>>]
    /\ exit_code = -1
    /\ calls = <<>>

Init == LibIdle /\ CliIdle

Encode ==
    /\ pc = "idle"
    /\ \E s \in TextInputs :
          /\ msg' = s
          /\ enc' = translate_to_morse(s)
    /\ pc' = "encoded"
    /\ UNCHANGED <<dec, ch, seq, back>>
    /\ UNCHANGED clivars

DecodeEncoded ==
    /\ pc = "encoded"
    /\ enc.kind = "ok"
    /\ dec' = translate_from_morse(enc.val)
    /\ pc' = "roundtrip"
    /\ UNCHANGED <<msg, enc, ch, seq, back>>
    /\ UNCHANGED clivars

Decode ==
    /\ pc = "idle"
    /\ \E m \in MorseInputs :
          /\ msg' = m
          /\ dec' = translate_from_morse(m)
    /\ pc' = "decoded"
    /\ UNCHANGED <<enc, ch, seq, back>>
    /\ UNCHANGED clivars

LookupChar ==
    /\ pc = "idle"
    /\ \E c \in Supported \cup OtherChars :
          /\ ch' = c
          /\ seq' = lookup_by_char(c)
    /\ pc' = "looked_up"
    /\ UNCHANGED <<msg, enc, dec, back>>
    /\ UNCHANGED clivars

ReverseLookup ==
    /\ pc = "looked_up"
    /\ seq.kind = "ok"
    /\ back' = from_morse_array_to_char(seq.val)
    /\ pc' = "reversed"
    /\ UNCHANGED <<msg, enc, dec, ch, seq>>
    /\ UNCHANGED clivars

LookupSeq ==
    /\ pc = "idle"
    /\ \E q \in SeqInputs :
          /\ seq' = Ok(q)
          /\ back' = from_morse_array_to_char(q)
    /\ pc' = "seq_looked_up"
    /\ UNCHANGED <<msg, enc, dec, ch>>
    /\ UNCHANGED clivars

Next ==
    \/ Encode
    \/ DecodeEncoded
    \/ Decode
    \/ LookupChar
    \/ ReverseLookup
    \/ LookupSeq

Spec == Init /\ [][Next]_vars

----------------------------------------------------------------------------
(* main of the command line program.                                       *)

Index(f, x) == CHOOSE i \in DOMAIN f : f[i] = x

(* str::to_lowercase over the characters of the model.                     *)
to_lowercase(s) ==
    [i \in 1..Len(s) |->
        IF s[i] \in Capitals THEN LowerCase[Index(UpperCase, s[i])] ELSE s[i]]

(* str::trim: leading and trailing white space removed.                    *)
trim(s) ==
    LET keep == {i \in 1..Len(s) : s[i] \notin WhiteSpace}
        lo == CHOOSE i \in keep : \A j \in keep : i <= j
        hi == CHOOSE i \in keep : \A j \in keep : j <= i
    IN  IF keep = {} THEN <<>> ELSE SubSeq(s, lo, hi)

(* Regex::is_match with the pattern that main builds for the mode.         *)
is_match(md, m) ==
    IF md = "Encode"
    THEN \A i \in 1..Len(m) : m[i] \in Letters \cup Capitals \cup Digits \cup WhiteSpace
    ELSE \A i \in 1..Len(m) : m[i] \in {".", "-"} \cup WhiteSpace

Unallowed == "The given message contains unallowed characters"
PanicStatus == 101

CliInit ==
    /\ cpc = "start"
    /\ mode \in {"Encode", "Decode"}
    /\ raw = <<>>
    /\ output \in {"none", "path"}
    /\ translated = Nil
    /\ stdout = <<>>
    /\ stderr = <<>>
    /\ file = [written |-> FALSE, content |-> <<>>]
    /\ exit_code = -1
    /\ calls = <<>>

(* args.message, or read_file returning the contents of the source file.   *)
ReadInput ==
    /\ cpc = "start"
    /\ \E m \in CliInputs : raw' = m
    /\ cpc' = "read"
    /\ UNCHANGED <<mode, output, translated, stdout, stderr, file, exit_code, calls>>
    /\ UNCHANGED libvars

(* read_file panics: the file is missing, unreadable or not UTF-8.         *)
ReadFails ==
    /\ cpc = "start"
    /\ \E why \in {"Cannot read from path as it does not exist",
                   "Unable to read file", "Unable to decode bytes"} :
          stderr' = Append(stderr, why)
    /\ exit_code' = PanicStatus
    /\ cpc' = "panicked"
    /\ UNCHANGED <<mode, raw, output, translated, stdout, file, calls>>
    /\ UNCHANGED libvars

(* Validate without the process::exit: the message is printed and main     *)
(* goes on.                                                                *)
Validate_no_exit ==
    /\ cpc = "read"
    /\ IF ~is_match(mode, raw)
       THEN stderr' = Append(stderr, Unallowed)
       ELSE UNCHANGED stderr
    /\ cpc' = "validated"
    /\ UNCHANGED <<mode, raw, output, translated, stdout, file, exit_code, calls>>
    /\ UNCHANGED libvars

Validate ==
    /\ cpc = "read"
    /\ IF ~is_match(mode, raw)
       THEN /\ stderr' = Append(stderr, Unallowed)
            /\ exit_code' = 1
            /\ cpc' = "exited"
       ELSE /\ cpc' = "validated"
            /\ UNCHANGED <<stderr, exit_code>>
    /\ UNCHANGED <<mode, raw, output, translated, stdout, file, calls>>
    /\ UNCHANGED libvars

Translate ==
    /\ cpc = "validated"
    /\ LET m == to_lowercase(raw)
           r == IF mode = "Encode"
                THEN translate_to_morse(trim(m))
                ELSE translate_from_morse(trim(m))
       IN  /\ translated' = r
           /\ calls' = Append(calls, IF mode = "Encode" THEN "translate_to_morse"
                                                        ELSE "translate_from_morse")
           /\ IF r.kind = "panic"
              THEN /\ stderr' = Append(stderr, r.why)
                   /\ exit_code' = PanicStatus
                   /\ cpc' = "panicked"
              ELSE /\ cpc' = "translated"
                   /\ UNCHANGED <<stderr, exit_code>>
    /\ UNCHANGED <<mode, raw, output, stdout, file>>
    /\ UNCHANGED libvars

WriteOutput ==
    /\ cpc = "translated"
    /\ IF output = "path"
       THEN /\ file' = [written |-> TRUE, content |-> trim(translated.val)]
            /\ UNCHANGED stdout
       ELSE /\ stdout' = stdout \o trim(translated.val) \o <<"\n">>
            /\ UNCHANGED file
    /\ exit_code' = 0
    /\ cpc' = "done"
    /\ UNCHANGED <<mode, raw, output, translated, stderr, calls>>
    /\ UNCHANGED libvars

(* write_to_file panics: fs::write failed.                                 *)
WriteFails ==
    /\ cpc = "translated"
    /\ output = "path"
    /\ stderr' = Append(stderr, "Unable to write to file")
    /\ exit_code' = PanicStatus
    /\ cpc' = "panicked"
    /\ UNCHANGED <<mode, raw, output, translated, stdout, file, calls>>
    /\ UNCHANGED libvars

CliNext ==
    \/ ReadInput
    \/ ReadFails
    \/ Validate
    \/ Translate
    \/ WriteOutput
    \/ WriteFails

CliStart == LibIdle /\ CliInit

CliSpec == CliStart /\ [][CliNext]_vars

----------------------------------------------------------------------------
(* The statements checked.                                                 *)

(* The error outcome that the specification names; no function of the     *)
(* library produces it.                                                    *)
Err(w) == [kind |-> "err", val |-> <<>>, why |-> w]

TableSize == 37
TableChars == {CHAR_MORSE_MAP[i][1] : i \in 1..Len(CHAR_MORSE_MAP)}
TableSeqs == {CHAR_MORSE_MAP[i][2] : i \in 1..Len(CHAR_MORSE_MAP)}
Renderings == {to_str(m) : m \in Morse}
Spaces(n) == [k \in 1..n |-> " "]
OverSupported(s) == \A i \in 1..Len(s) : s[i] \in Supported

(* Lowercase letters, digits and single spaces: no leading, trailing or    *)
(* doubled space.                                                          *)
SingleSpaced(s) ==
    /\ OverSupported(s)
    /\ Len(s) > 0 => (s[1] # " " /\ s[Len(s)] # " ")
    /\ \A i \in 1..(Len(s) - 1) : ~(s[i] = " " /\ s[i + 1] = " ")

(* The letters of a morse text and the tokens of a letter, by splitting on *)
(* the gaps.                                                               *)
MorseLetters(m) ==
    LET words == Split(m, Spaces(7))
    IN  UNION {Range(Split(words[i], Spaces(3))) : i \in 1..Len(words)}
Tokens(l) == Range(Split(l, <<" ">>))
Pulses(l) ==
    LET toks == Split(l, <<" ">>)
    IN  [i \in 1..Len(toks) |-> IF toks[i] = <<".">> THEN "Dit" ELSE "Dah"]

(* C1: for every string s of lowercase letters, digits and single spaces   *)
(* (the empty string included), translate_to_morse(s) succeeds and         *)
(* translate_from_morse of it returns exactly s.                           *)
C1_RoundTrip ==
    (pc \in {"encoded", "roundtrip"} /\ SingleSpaced(msg)) =>
        /\ enc.kind = "ok"
        /\ pc = "roundtrip" => dec = Ok(msg)

(* C2: translate_from_morse("") succeeds and returns "".                   *)
C2_DecodeEmpty ==
    (pc = "decoded" /\ msg = <<>>) => dec = Ok(<<>>)

(* C3: translate_to_morse of a text with a character outside a-z, 0-9 and  *)
(* space returns the UnknownCharacter error to the caller: no crash, no    *)
(* character dropped or substituted.                                       *)
C3_UnknownCharacter ==
    (pc = "encoded" /\ ~OverSupported(msg)) => enc = Err("UnknownCharacter")

(* C4: translate_from_morse of a text whose tokens are all pulses and      *)
(* where some letter's pulse sequence is in no table entry returns the     *)
(* UnknownSequence error to the caller, not an unchecked access fault.     *)
C4_UnknownSequence ==
    (/\ pc = "decoded"
     /\ \A l \in MorseLetters(msg) : Tokens(l) \subseteq {<<".">>, <<"-">>}
     /\ \E l \in MorseLetters(msg) : Pulses(l) \notin TableSeqs)
        => dec = Err("UnknownSequence")

(* C5: translate_from_morse of a text where a token of some letter is not  *)
(* one of the five canonical renderings (the empty token included) returns *)
(* the InvalidSymbol error to the caller.                                  *)
C5_InvalidSymbol ==
    (/\ pc = "decoded"
     /\ \E l \in MorseLetters(msg) : ~(Tokens(l) \subseteq Renderings))
        => dec = Err("InvalidSymbol")

(* C6: for every input that matches the encode allow-list, after main has  *)
(* lower-cased and trimmed it, translate_to_morse meets no character       *)
(* outside the table: the call does not fail on an unknown character.      *)
C6_PreValidationSuffices ==
    (mode = "Encode" /\ calls # <<>>) =>
        /\ OverSupported(trim(to_lowercase(raw)))
        /\ translated.kind = "ok"

(* C7 as stated: every entry of CHAR_MORSE_MAP, the one for the space      *)
(* included, maps its character to 1 to 5 elements that are Dit or Dah.    *)
C7_OnlyPulses ==
    (pc \in {"looked_up", "reversed"} /\ seq.kind = "ok") =>
        /\ Len(seq.val) \in 1..5
        /\ Range(seq.val) \subseteq {"Dit", "Dah"}

(* C7 as amended: every entry of CHAR_MORSE_MAP maps its character to 1 to *)
(* 5 elements; the elements are Dit or Dah for every character but the     *)
(* space, whose entry is the single gap primitive WordSpace.               *)
C7_PulsesButSpace ==
    /\ \A i \in 1..Len(CHAR_MORSE_MAP) : Len(CHAR_MORSE_MAP[i][2]) \in 1..5
    /\ (pc \in {"looked_up", "reversed"} /\ seq.kind = "ok") =>
          /\ Len(seq.val) \in 1..5
          /\ ch # " " => Range(seq.val) \subseteq {"Dit", "Dah"}
          /\ ch = " " => seq.val = <<"WordSpace">>

C7_Witness ==
    /\ pc = "looked_up"
    /\ ch = " "
    /\ seq = Ok(<<"WordSpace">>)

(* C8: the table has exactly 37 entries, one per character of a-z, 0-9 and *)
(* space; for every such character the lookup by character succeeds and    *)
(* the lookup of the resulting sequence returns the character, so no two   *)
(* characters share a sequence.                                            *)
C8_TableBijective ==
    /\ Len(CHAR_MORSE_MAP) = TableSize
    /\ TableChars = Supported
    /\ Cardinality(TableSeqs) = TableSize
    /\ (pc \in {"looked_up", "reversed"} /\ ch \in Supported) => seq.kind = "ok"
    /\ (pc = "reversed" /\ ch \in Supported) => back = OkC(ch)

C8_Witness ==
    /\ pc = "reversed"
    /\ ch = "0"
    /\ seq = Ok(<<"Dah", "Dah", "Dah", "Dah", "Dah">>)
    /\ back = OkC("0")

(* The reference encoding, by one pass over the characters: a space gives  *)
(* seven spaces; any other character gives its table pulses joined by one  *)
(* space, after three spaces when the character before it is no space.     *)
Entry(c) == CHOOSE e \in Range(CHAR_MORSE_MAP) : e[1] = c
RefChar(c) ==
    LET p == Entry(c)[2]
    IN  [k \in 1..(2 * Len(p) - 1) |->
            IF k % 2 = 0 THEN " "
            ELSE IF p[(k + 1) \div 2] = "Dit" THEN "." ELSE "-"]
RECURSIVE RefFrom(_, _)
RefFrom(s, i) ==
    IF i > Len(s) THEN <<>>
    ELSE (IF s[i] = " " THEN Spaces(7)
          ELSE (IF i > 1 /\ s[i - 1] # " " THEN Spaces(3) ELSE <<>>)
               \o RefChar(s[i]))
         \o RefFrom(s, i + 1)

(* C9: for every text over a-z, 0-9 and space, translate_to_morse returns  *)
(* the reference encoding, and the number of seven-space separators of the *)
(* result is the number of spaces of the text.                             *)
C9_ReferenceEncoding ==
    /\ (pc \in {"encoded", "roundtrip"} /\ OverSupported(msg)) =>
          /\ enc = Ok(RefFrom(msg, 1))
          /\ Len(Split(enc.val, Spaces(7))) - 1
                = Cardinality({i \in 1..Len(msg) : msg[i] = " "})
    /\ (pc = "encoded" /\ msg = <<"s", "o", "s">>) =>
          enc = Ok(<<".", " ", ".", " ", ".", " ", " ", " ",
                     "-", " ", "-", " ", "-", " ", " ", " ",
                     ".", " ", ".", " ", ".">>)

(* A text with a doubled space: the empty word between the two spaces      *)
(* encodes to the empty string, between two seven-space separators.        *)
C9_Witness ==
    /\ pc = "encoded"
    /\ msg = <<"s", " ", " ", "o">>
    /\ enc = Ok(<<".", " ", ".", " ", ".">> \o Spaces(7) \o Spaces(7)
                \o <<"-", " ", "-", " ", "-">>)

(* C10: whenever the raw input does not match the allow-list of the mode,  *)
(* the run ends with exit status 1 after a message on stderr, neither      *)
(* translate function is called and nothing is written to standard output *)
(* or to the output file.                                                  *)
C10_ValidationFirst ==
    (cpc # "start" /\ ~is_match(mode, raw)) =>
        /\ cpc \in {"read", "exited"}
        /\ calls = <<>>
        /\ translated = Nil
        /\ stdout = <<>>
        /\ ~file.written
        /\ cpc = "exited" => (exit_code = 1 /\ stderr = <<Unallowed>>)
        /\ cpc = "read" => (exit_code = -1 /\ stderr = <<>>)

C10_Witness ==
    /\ cpc = "exited"
    /\ mode = "Decode"
    /\ raw = <<".", "a">>
    /\ output = "path"
    /\ exit_code = 1

====
